---- MODULE Spec2Model ----
(***************************************************************************)
(* Model of lexicon's Git provider (lexicon/providers/git.py).             *)
(*                                                                         *)
(* and of the REST provider (lexicon/providers/digitalocean.py).           *)
(*                                                                         *)
(* The specifications of this module:                                      *)
(*   SpecPath    the pure function Provider._zone_filename, applied to     *)
(*               every template / domain of a bounded set;                 *)
(*   Spec        the provider as a state machine: _authenticate, the three *)
(*               mutating operations and _commit, against a remote         *)
(*               repository whose clone and push outcomes are chosen by    *)
(*               the environment;                                          *)
(*   SpecBranch  Spec with the push-branch option set or unset;            *)
(*   SpecPush    the function _push, applied to every flag bitmask;        *)
(*   SpecTwo     Spec with a second provider instance working on the same  *)
(*               remote branch;                                            *)
(*   SpecRest    the REST provider against a paginated record collection;  *)
(*   SpecList    the function list_records, applied to every record        *)
(*               collection, page size and filter of a bounded set.        *)
(*                                                                         *)
(* Python strings are sequences of one-character strings; the eight        *)
(* characters of the placeholder "{domain}" are one token.  Python's None  *)
(* is NoneStr; a temporary directory or repository handle is <<kind, n>>,  *)
(* n counting the objects of that kind made so far.                        *)
(***************************************************************************)
EXTENDS Integers, Sequences, FiniteSets, TLC

VARIABLES
    \* configuration (provider options) and Provider.domain
    git_path, domain,
    \* SpecPath: position of the resolver run and the value it returned
    pcPath, zone_path,
    \* Provider fields
    temp_dir, filename, repo, domain_id,
    \* the clone: its branch history (oldest first) and the zone file of
    \* the working copy
    localHist, wc,
    \* the remote repository's branch history
    remoteHist,
    \* observation of the latest call made by the caller
    calls, op, result, mutOk,
    callCommits, callCreated, callPushes, callPushList, callClones,
    cloneFailed, headBefore, remoteBefore,
    \* observation over the whole run
    tempDirsCreated, cloneAttempts, clonesSucceeded,
    \* the latest _commit runs with no record mutation between them (at most
    \* the last two)
    commitRun,
    \* the git_push_branch option, and the history of that branch on the
    \* remote
    git_push_branch, pushBranchHist,
    \* SpecPush: position of the _push run, the list push() handed back and
    \* what _push returned
    pcPush, pushIn, pushOut,
    \* SpecTwo: the second instance's clone and its latest call
    peerHist, peerWc, peerCalls, peerOp, peerResult, peerRemoteBefore,
    \* SpecRest: the server's record collection and the latest call
    doRecords, doNextId, perPage, restOp, restArgs, restResult, restOut,
    restReqs, restBefore, restSent

pathVars == <<git_path, domain, pcPath, zone_path>>
fieldVars == <<temp_dir, filename, repo, domain_id>>
repoVars == <<localHist, wc, remoteHist>>
callVars == <<calls, op, result, mutOk, callCommits, callCreated,
              callPushes, callPushList, callClones, cloneFailed, headBefore,
              remoteBefore>>
runVars == <<tempDirsCreated, cloneAttempts, clonesSucceeded, commitRun>>
branchVars == <<git_push_branch, pushBranchHist>>
pushVars == <<pcPush, pushIn, pushOut>>
peerVars == <<peerHist, peerWc, peerCalls, peerOp, peerResult, peerRemoteBefore>>
restVars == <<doRecords, doNextId, perPage, restOp, restArgs, restResult,
              restOut, restReqs, restBefore, restSent>>
vars == <<pathVars, fieldVars, repoVars, callVars, runVars, branchVars,
          pushVars, peerVars, restVars>>

----------------------------------------------------------------------------
(* Bounds *)

MaxTemplateLen == 5
MaxCalls == 4
MaxRecord == 2
MaxPeerCalls == 2
MaxRest == 2
MaxListed == 3
MaxPerPage == 2

----------------------------------------------------------------------------
(* Strings and os.path (posixpath) *)

NoneStr == <<"None">>

Placeholder == "{domain}"

TemplateChars == {"/", ".", "f", Placeholder}

Domains == {<<"e">>, <<"e", ".", "c">>}

RECURSIVE SeqsUpTo(_, _)
SeqsUpTo(S, n) ==
    IF n = 0 THEN {<<>>}
    ELSE LET shorter == SeqsUpTo(S, n - 1)
         IN  shorter \cup {Append(s, c) : s \in {t \in shorter : Len(t) = n - 1}, c \in S}

Templates == {NoneStr} \cup SeqsUpTo(TemplateChars, MaxTemplateLen)

\* "{domain}" in filename
contains_placeholder(s) == \E i \in 1..Len(s) : s[i] = Placeholder

\* filename.replace("{domain}", self.domain)
RECURSIVE replace(_, _)
replace(s, d) ==
    IF s = <<>> THEN <<>>
    ELSE (IF Head(s) = Placeholder THEN d ELSE <<Head(s)>>) \o replace(Tail(s), d)

\* os.path.join(a, b)
join(a, b) ==
    IF b # <<>> /\ Head(b) = "/" THEN b
    ELSE IF a = <<>> \/ a[Len(a)] = "/" THEN a \o b
    ELSE a \o <<"/">> \o b

\* str.split("/")
RECURSIVE split(_)
split(s) ==
    IF \A i \in 1..Len(s) : s[i] # "/" THEN <<s>>
    ELSE LET i == CHOOSE k \in 1..Len(s) :
                      s[k] = "/" /\ \A j \in 1..(k - 1) : s[j] # "/"
         IN  <<SubSeq(s, 1, i - 1)>> \o split(SubSeq(s, i + 1, Len(s)))

\* "/".join(comps)
RECURSIVE joinsep(_)
joinsep(comps) ==
    IF comps = <<>> THEN <<>>
    ELSE IF Len(comps) = 1 THEN comps[1]
    ELSE comps[1] \o <<"/">> \o joinsep(Tail(comps))

DotDot == <<".", ".">>
Dot == <<".">>

\* the loop of os.path.normpath over the components
RECURSIVE norm_comps(_, _, _)
norm_comps(comps, new_comps, initial_slashes) ==
    IF comps = <<>> THEN new_comps
    ELSE LET comp == Head(comps)
             rest == Tail(comps)
         IN  IF comp = <<>> \/ comp = Dot
                 THEN norm_comps(rest, new_comps, initial_slashes)
             ELSE IF \/ comp # DotDot
                     \/ (initial_slashes = 0 /\ new_comps = <<>>)
                     \/ (new_comps # <<>> /\ new_comps[Len(new_comps)] = DotDot)
                 THEN norm_comps(rest, Append(new_comps, comp), initial_slashes)
             ELSE IF new_comps # <<>>
                 THEN norm_comps(rest, SubSeq(new_comps, 1, Len(new_comps) - 1),
                                 initial_slashes)
             ELSE norm_comps(rest, new_comps, initial_slashes)

startswith(s, n) == Len(s) >= n /\ \A i \in 1..n : s[i] = "/"

\* os.path.normpath(path)
normpath(path) ==
    IF path = <<>> THEN Dot
    ELSE LET initial_slashes ==
                 IF ~startswith(path, 1) THEN 0
                 ELSE IF startswith(path, 2) /\ ~startswith(path, 3) THEN 2
                 ELSE 1
             body == joinsep(norm_comps(split(path), <<>>, initial_slashes))
             out == [i \in 1..initial_slashes |-> "/"] \o body
         IN  IF out = <<>> THEN Dot ELSE out

\* os.getcwd(): only consulted for a path that is not absolute
Cwd == <<"/", "w">>

\* os.path.abspath(path)
abspath(path) ==
    IF startswith(path, 1) THEN normpath(path) ELSE normpath(join(Cwd, path))

\* [x for x in s.split(sep) if x]
nonempty(comps) == SelectSeq(comps, LAMBDA x : x # <<>>)

\* len(os.path.commonprefix([a, b])) for two lists
commonprefix(a, b) ==
    LET m == IF Len(a) < Len(b) THEN Len(a) ELSE Len(b)
        agree == {n \in 0..m : \A i \in 1..n : a[i] = b[i]}
    IN  CHOOSE n \in agree : \A k \in agree : k <= n

\* os.path.relpath(path, start)
relpath(path, start) ==
    LET start_list == nonempty(split(abspath(start)))
        path_list == nonempty(split(abspath(path)))
        i == commonprefix(start_list, path_list)
        rel_list == [k \in 1..(Len(start_list) - i) |-> DotDot]
                        \o SubSeq(path_list, i + 1, Len(path_list))
    IN  IF rel_list = <<>> THEN Dot ELSE joinsep(rel_list)

\* Provider._zone_filename without the final normalisation
zone_filename_raw(template, dom) ==
    LET f0 == IF template = NoneStr THEN <<>> ELSE template
    IN  IF contains_placeholder(f0) THEN replace(f0, dom) ELSE join(f0, dom)

\* Provider._zone_filename with the domain always appended
zone_filename_append(template, dom) ==
    LET f0 == IF template = NoneStr THEN <<>> ELSE template
        f1 == join(replace(f0, dom), dom)
    IN  relpath(join(<<"/">>, f1), <<"/">>)

\* Provider._zone_filename
zone_filename(template, dom) ==
    LET f0 == IF template = NoneStr THEN <<>> ELSE template
        f1 == IF contains_placeholder(f0) THEN replace(f0, dom) ELSE join(f0, dom)
    IN  relpath(join(<<"/">>, f1), <<"/">>)

----------------------------------------------------------------------------
(* Repository and zone store values *)

Records == 1..MaxRecord

\* a tree (or working copy) either lacks the zone file or holds its records
NoFile == [exists |-> FALSE, zone |-> {}]
ZoneFile(z) == [exists |-> TRUE, zone |-> z]

TempName == <<"/", "t">>

head(hist) == hist[Len(hist)]

\* repo.head.is_valid()
head_is_valid(hist) == hist # <<>>

----------------------------------------------------------------------------
(* git.Repo, as far as the provider uses it *)

\* git.PushInfo flag bits
PushInfo == [NEW_TAG |-> 1, NEW_HEAD |-> 2, NO_MATCH |-> 4, REJECTED |-> 8,
             REMOTE_REJECTED |-> 16, REMOTE_FAILURE |-> 32, DELETED |-> 64,
             FORCED_UPDATE |-> 128, FAST_FORWARD |-> 256, UP_TO_DATE |-> 512,
             ERROR |-> 1024]

\* a & b on naturals
RECURSIVE bitand(_, _)
bitand(a, b) ==
    IF a = 0 \/ b = 0 THEN 0
    ELSE (a % 2) * (b % 2) + 2 * bitand(a \div 2, b \div 2)

\* What repo.remote().push() can hand back after a new local commit: a list
\* whose first entry carries a flag bitmask, or an empty list when the push
\* failed as a whole (remote unreachable, access denied).
PushFlagChoices ==
    {PushInfo.FAST_FORWARD,
     PushInfo.NEW_HEAD,
     PushInfo.ERROR + PushInfo.REJECTED}

PushResults == {<<>>} \cup {<<f>> : f \in PushFlagChoices}

\* the remote accepts the pushed head unless the entry reports an error
remote_after_push(hist, remote, push_list) ==
    IF push_list # <<>> /\ bitand(push_list[1], PushInfo.ERROR) = 0
        THEN hist ELSE remote

\* history a is history b or an ancestor of it
is_prefix(a, b) == Len(a) <= Len(b) /\ SubSeq(b, 1, Len(a)) = a

\* What git lets push() report: the plain push (no force) of a head that
\* does not descend from the remote branch head is rejected or fails.
push_feasible(hist, remote, push_list) ==
    IF is_prefix(remote, hist) \/ push_list = <<>> THEN TRUE
    ELSE bitand(push_list[1], PushInfo.ERROR) = PushInfo.ERROR

\* _push(repo): push_list is the value of repo.remote().push()
push(hist, remote, push_list) ==
    [remote |-> remote_after_push(hist, remote, push_list),
     result |-> IF push_list = <<>> THEN "IndexError"
                ELSE IF bitand(push_list[1], PushInfo.ERROR) = PushInfo.ERROR
                    THEN "False"
                ELSE "True"]

\* Provider._commit without the "Nothing to commit!" early return
commit_always(hist, w, remote, push_list) ==
    LET h1 == Append(hist, w)
        pr == push(h1, remote, push_list)
    IN  [hist |-> h1, remote |-> pr.remote, result |-> pr.result,
         created |-> 1, pushes |-> 1]

\* Provider._commit that resets the branch when the push did not succeed
commit_rollback(hist, w, remote, push_list) ==
    IF head_is_valid(hist) /\ head(hist) = w
        THEN [hist |-> hist, remote |-> remote, result |-> "True",
              created |-> 0, pushes |-> 0]
    ELSE LET h1 == Append(hist, w)
             pr == push(h1, remote, push_list)
         IN  [hist |-> IF pr.result = "True" THEN h1 ELSE hist,
              remote |-> pr.remote, result |-> pr.result,
              created |-> 1, pushes |-> 1]

\* Provider._commit: w is the working copy that index.add('*') stages
commit(hist, w, remote, push_list) ==
    IF head_is_valid(hist) /\ head(hist) = w
        THEN [hist |-> hist, remote |-> remote, result |-> "True",
              created |-> 0, pushes |-> 0]
    ELSE LET h1 == Append(hist, w)
             pr == push(h1, remote, push_list)
         IN  [hist |-> h1, remote |-> pr.remote, result |-> pr.result,
              created |-> 1, pushes |-> 1]

\* kwargs of the call _push(self.repo, **kwargs): the push-branch option
\* when it is set
push_kwargs(push_branch) == push_branch

\* The remote branch that receives the push.  _push calls
\* repo.remote().push() without arguments and does not hand kwargs on, so
\* git pushes the checked-out branch to the branch it was cloned from.
pushed_branch(kwargs) == "pull"

----------------------------------------------------------------------------
(* Zone Store: the record operations inherited from the localzone provider *)

\* createRecord: a duplicate candidate is a failed mutation
zs_create(zone, r) ==
    IF r \in zone THEN [ok |-> FALSE, zone |-> zone]
    ELSE [ok |-> TRUE, zone |-> zone \cup {r}]

\* updateRecord: the identified record takes the new content
zs_update(zone, id, r) ==
    IF id \notin zone THEN [ok |-> FALSE, zone |-> zone]
    ELSE [ok |-> TRUE, zone |-> (zone \ {id}) \cup {r}]

\* deleteRecord: removes every record of the matching set; zero matches
\* is a success
zs_delete(zone, matching) == [ok |-> TRUE, zone |-> zone \ matching]

----------------------------------------------------------------------------------------------------------------------------------------
(* Initial states *)

ProviderConfigs == {NoneStr, <<".", ".", "/", "f">>}

RemoteInits == {<<>>, <<NoFile>>, <<ZoneFile({})>>, <<ZoneFile({1})>>}

\* what one _commit run did
CommitRecord(c, before) ==
    [created |-> c.created, result |-> c.result, before |-> before,
     after |-> c.hist]

\* the run of consecutive commits after one more _commit
run_after(run, rec) ==
    IF run = <<>> THEN <<rec>> ELSE <<run[Len(run)], rec>>

\* Provider.__init__
InitProvider ==
    /\ temp_dir = NoneStr
    /\ filename = NoneStr
    /\ repo = NoneStr
    /\ domain_id = NoneStr
    /\ localHist = <<>>
    /\ wc = NoFile
    /\ calls = 0
    /\ op = "None"
    /\ result = "None"
    /\ mutOk = FALSE
    /\ callCommits = 0
    /\ callCreated = 0
    /\ callPushes = 0
    /\ callPushList = <<>>
    /\ callClones = 0
    /\ cloneFailed = FALSE
    /\ headBefore = <<>>
    /\ remoteBefore = remoteHist
    /\ tempDirsCreated = 0
    /\ cloneAttempts = 0
    /\ clonesSucceeded = 0
    /\ commitRun = <<>>

\* the parts of the state a specification does not use
IdleBranch ==
    /\ git_push_branch = NoneStr
    /\ pushBranchHist = <<>>

IdlePush ==
    /\ pcPush = "off"
    /\ pushIn = <<>>
    /\ pushOut = "None"

IdlePeer ==
    /\ peerHist = <<>>
    /\ peerWc = NoFile
    /\ peerCalls = 0
    /\ peerOp = "None"
    /\ peerResult = "None"
    /\ peerRemoteBefore = <<>>

\* identifier=None of update_record / delete_record; "not identifier"
\* holds for None and for 0 alike
NoIdentifier == 0

NoArgs == [identifier |-> NoIdentifier, type |-> NoneStr, name |-> NoneStr,
           content |-> NoneStr]

IdleRest ==
    /\ doRecords = <<>>
    /\ doNextId = 1
    /\ perPage = 1
    /\ restOp = "None"
    /\ restArgs = NoArgs
    /\ restResult = "None"
    /\ restOut = <<>>
    /\ restReqs = <<>>
    /\ restBefore = <<>>
    /\ restSent = <<>>

Init ==
    /\ git_path \in ProviderConfigs
    /\ domain = <<"e">>
    /\ pcPath = "off"
    /\ zone_path = NoneStr
    /\ remoteHist \in RemoteInits
    /\ InitProvider
    /\ IdleBranch
    /\ IdlePush
    /\ IdlePeer
    /\ IdleRest

InitPath ==
    /\ git_path \in Templates
    /\ domain \in Domains
    /\ pcPath = "start"
    /\ zone_path = NoneStr
    /\ remoteHist = <<>>
    /\ InitProvider
    /\ IdleBranch
    /\ IdlePush
    /\ IdlePeer
    /\ IdleRest

\* the push-branch option is unset or names a branch other than the cloned
\* one
PushBranchConfigs == {NoneStr, <<"p">>}

InitBranch ==
    /\ git_path = NoneStr
    /\ domain = <<"e">>
    /\ pcPath = "off"
    /\ zone_path = NoneStr
    /\ remoteHist \in {<<ZoneFile({})>>, <<ZoneFile({1})>>}
    /\ InitProvider
    /\ git_push_branch \in PushBranchConfigs
    /\ pushBranchHist = <<>>
    /\ IdlePush
    /\ IdlePeer
    /\ IdleRest

----------------------------------------------------------------------------
(* Operations *)

\* a call of Provider._zone_filename
ZoneFilenameCall ==
    /\ pcPath = "start"
    /\ zone_path' = zone_filename(git_path, domain)
    /\ pcPath' = "done"
    /\ UNCHANGED <<git_path, domain, fieldVars, repoVars, callVars, runVars,
                   branchVars, pushVars, peerVars, restVars>>

\* _clone(url, self.temp_dir.name): the working copy is the remote head's tree
cloned_tree(remote) == IF remote = <<>> THEN NoFile ELSE head(remote)

\* if self.temp_dir is None
need_dir == temp_dir = NoneStr

\* a handle test that never finds an existing handle
need_clone_always == TRUE

\* if self.repo is None
need_clone == repo = NoneStr

\* a clone that is tried a second time after it failed
clone_tries_retry(clone_ok) == IF clone_ok THEN 1 ELSE 2

\* number of times _clone runs inside the try block: GitCommandError goes
\* straight to raise AuthenticationError
clone_tries(clone_ok) == IF clone_ok THEN 1 ELSE 1

\* a presence check that opens the file for writing
open_zone_file_wt(w) ==
    [present |-> TRUE, wc |-> IF w.exists THEN w ELSE ZoneFile({})]

\* open(self.filename, "rt") ... f.close(): IOError when the file is absent
open_zone_file(w) == [present |-> w.exists, wc |-> w]

\* a readiness marker that is set before the outcome of the check is known
marks_ready_always(present) == TRUE

\* self.domain_id = self.domain is reached only past both raise statements
marks_ready(present) == present

\* Provider._authenticate; clone_ok is the outcome of _clone when it runs
authenticate(clone_ok) ==
    /\ calls < MaxCalls
    /\ LET new_dir == need_dir
           clones == need_clone
           failed == clones /\ ~clone_ok
           cloned == clones /\ clone_ok
           tried == IF clones THEN clone_tries(clone_ok) ELSE 0
           wc1 == IF cloned THEN cloned_tree(remoteHist) ELSE wc
           opened == open_zone_file(wc1)
       IN  /\ temp_dir' = IF new_dir THEN <<"tmp", tempDirsCreated + 1>> ELSE temp_dir
           /\ filename' = IF new_dir
                              THEN join(TempName, zone_filename(git_path, domain))
                              ELSE filename
           /\ tempDirsCreated' = tempDirsCreated + (IF new_dir THEN 1 ELSE 0)
           /\ callClones' = tried
           /\ cloneFailed' = failed
           /\ cloneAttempts' = cloneAttempts + tried
           /\ clonesSucceeded' = clonesSucceeded + (IF cloned THEN 1 ELSE 0)
           /\ repo' = IF cloned THEN <<"repo", clonesSucceeded + 1>> ELSE repo
           /\ localHist' = IF cloned THEN remoteHist ELSE localHist
           /\ IF failed
                  THEN /\ wc' = wc1
                       /\ domain_id' = domain_id
                       /\ result' = "AuthenticationError"
                  ELSE /\ wc' = opened.wc
                       /\ domain_id' = IF marks_ready(opened.present) THEN domain
                                       ELSE domain_id
                       /\ result' = IF opened.present THEN "None"
                                    ELSE "AuthenticationError"
    /\ calls' = calls + 1
    /\ op' = "authenticate"
    /\ mutOk' = FALSE
    /\ callCommits' = 0
    /\ callCreated' = 0
    /\ callPushes' = 0
    /\ callPushList' = <<>>
    /\ headBefore' = localHist
    /\ remoteBefore' = remoteHist
    /\ UNCHANGED <<pathVars, remoteHist, commitRun, branchVars, pushVars,
                   peerVars, restVars>>

\* a test that runs _commit whatever the mutation returned
runs_commit_always(m) == TRUE

\* if result:
runs_commit(m) == m.ok

\* a call that keeps the mutation's result and drops the commit's
call_result_ignoring(m, c) ==
    IF ~m.ok THEN "False"
    ELSE IF c.result = "IndexError" THEN "IndexError"
    ELSE "True"

\* result = super()...; if result: result = self._commit(); return result
call_result(m, c) == IF runs_commit(m) THEN c.result ELSE "False"

\* Provider._create_record / _update_record / _delete_record; m is what the
\* inherited operation returns and leaves in the zone file
mutating_call(name, m, push_list) ==
    /\ calls < MaxCalls
    /\ domain_id # NoneStr
    /\ LET w1 == ZoneFile(m.zone)
           target == pushed_branch(push_kwargs(git_push_branch))
           c == commit(localHist, w1,
                       IF target = "pull" THEN remoteHist ELSE pushBranchHist,
                       push_list)
           runs == runs_commit(m)
       IN  /\ (runs /\ c.pushes = 1) =>
                  push_feasible(c.hist, remoteHist, push_list)
           /\ wc' = w1
           /\ localHist' = IF runs THEN c.hist ELSE localHist
           /\ remoteHist' = IF runs /\ target = "pull" THEN c.remote
                            ELSE remoteHist
           /\ pushBranchHist' = IF runs /\ target = "push" THEN c.remote
                                ELSE pushBranchHist
           /\ result' = call_result(m, c)
           /\ callCommits' = IF runs THEN 1 ELSE 0
           /\ callCreated' = IF runs THEN c.created ELSE 0
           /\ callPushes' = IF runs THEN c.pushes ELSE 0
           /\ callPushList' = IF runs /\ c.pushes = 1 THEN push_list ELSE <<>>
           /\ commitRun' = IF runs THEN <<CommitRecord(c, localHist)>> ELSE <<>>
    /\ calls' = calls + 1
    /\ op' = name
    /\ mutOk' = m.ok
    /\ callClones' = 0
    /\ cloneFailed' = FALSE
    /\ headBefore' = localHist
    /\ remoteBefore' = remoteHist
    /\ UNCHANGED <<pathVars, fieldVars, tempDirsCreated, cloneAttempts,
                   clonesSucceeded, git_push_branch, pushVars, peerVars,
                   restVars>>

create_record(r, push_list) ==
    mutating_call("create", zs_create(wc.zone, r), push_list)

update_record(id, r, push_list) ==
    mutating_call("update", zs_update(wc.zone, id, r), push_list)

delete_record(matching, push_list) ==
    mutating_call("delete", zs_delete(wc.zone, matching), push_list)

\* a call of Provider._commit by itself
commit_call(push_list) ==
    /\ calls < MaxCalls
    /\ domain_id # NoneStr
    /\ LET target == pushed_branch(push_kwargs(git_push_branch))
           c == commit(localHist, wc,
                       IF target = "pull" THEN remoteHist ELSE pushBranchHist,
                       push_list)
       IN  /\ c.pushes = 1 => push_feasible(c.hist, remoteHist, push_list)
           /\ localHist' = c.hist
           /\ remoteHist' = IF target = "pull" THEN c.remote ELSE remoteHist
           /\ pushBranchHist' = IF target = "push" THEN c.remote
                                ELSE pushBranchHist
           /\ result' = c.result
           /\ callCreated' = c.created
           /\ callPushes' = c.pushes
           /\ callPushList' = IF c.pushes = 1 THEN push_list ELSE <<>>
           /\ commitRun' = run_after(commitRun, CommitRecord(c, localHist))
    /\ calls' = calls + 1
    /\ op' = "commit"
    /\ mutOk' = FALSE
    /\ callCommits' = 1
    /\ callClones' = 0
    /\ cloneFailed' = FALSE
    /\ headBefore' = localHist
    /\ remoteBefore' = remoteHist
    /\ UNCHANGED <<pathVars, fieldVars, wc, tempDirsCreated, cloneAttempts,
                   clonesSucceeded, git_push_branch, pushVars, peerVars,
                   restVars>>

Authenticate == \E clone_ok \in BOOLEAN : authenticate(clone_ok)
Create == \E r \in Records, p \in PushResults : create_record(r, p)
Update == \E id \in Records, r \in Records, p \in PushResults : update_record(id, r, p)
Delete == \E matching \in SUBSET Records, p \in PushResults : delete_record(matching, p)
Commit == \E p \in PushResults : commit_call(p)

Next == Authenticate \/ Create \/ Update \/ Delete \/ Commit

Spec == Init /\ [][Next]_vars

SpecBranch == InitBranch /\ [][Next]_vars

\* the record the second instance manages; this instance never touches it
PeerRecord == MaxRecord + 1

\* The second instance has cloned the remote branch and authenticated.
InitTwo ==
    /\ git_path = NoneStr
    /\ domain = <<"e">>
    /\ pcPath = "off"
    /\ zone_path = NoneStr
    /\ remoteHist = <<ZoneFile({})>>
    /\ InitProvider
    /\ IdleBranch
    /\ IdlePush
    /\ peerHist = remoteHist
    /\ peerWc = cloned_tree(remoteHist)
    /\ peerCalls = 0
    /\ peerOp = "None"
    /\ peerResult = "None"
    /\ peerRemoteBefore = remoteHist
    /\ IdleRest

\* Provider._create_record / _delete_record of the second instance
peer_call(name, m, push_list) ==
    /\ peerCalls < MaxPeerCalls
    /\ peerWc.exists
    /\ LET w1 == ZoneFile(m.zone)
           c == commit(peerHist, w1, remoteHist, push_list)
           runs == runs_commit(m)
       IN  /\ (runs /\ c.pushes = 1) =>
                  push_feasible(c.hist, remoteHist, push_list)
           /\ peerWc' = w1
           /\ peerHist' = IF runs THEN c.hist ELSE peerHist
           /\ remoteHist' = IF runs THEN c.remote ELSE remoteHist
           /\ peerResult' = call_result(m, c)
    /\ peerCalls' = peerCalls + 1
    /\ peerOp' = name
    /\ peerRemoteBefore' = remoteHist
    /\ UNCHANGED <<pathVars, fieldVars, localHist, wc, callVars, runVars,
                   branchVars, pushVars, restVars>>

PeerCreate ==
    \E p \in PushResults :
        peer_call("create", zs_create(peerWc.zone, PeerRecord), p)

PeerDelete ==
    \E p \in PushResults :
        peer_call("delete", zs_delete(peerWc.zone, {PeerRecord}), p)

NextTwo == Next \/ PeerCreate \/ PeerDelete

SpecTwo == InitTwo /\ [][NextTwo]_vars

\* every value repo.remote().push() can hand back: no entry, or a first
\* entry with any combination of the flag bits
AllPushLists == {<<>>} \cup {<<f>> : f \in 0..(2 * PushInfo.ERROR - 1)}

InitPush ==
    /\ git_path = NoneStr
    /\ domain = <<"e">>
    /\ pcPath = "off"
    /\ zone_path = NoneStr
    /\ remoteHist = <<>>
    /\ InitProvider
    /\ IdleBranch
    /\ pcPush = "start"
    /\ pushIn \in AllPushLists
    /\ pushOut = "None"
    /\ IdlePeer
    /\ IdleRest

\* a call of _push
PushCall ==
    /\ pcPush = "start"
    /\ pushOut' = push(localHist, remoteHist, pushIn).result
    /\ pcPush' = "done"
    /\ UNCHANGED <<pathVars, fieldVars, repoVars, callVars, runVars,
                   branchVars, pushIn, peerVars, restVars>>

NextPush == PushCall

SpecPush == InitPush /\ [][NextPush]_vars

NextPath == ZoneFilenameCall

SpecPath == InitPath /\ [][NextPath]_vars

----------------------------------------------------------------------------
(* Properties of _zone_filename (SpecPath) *)

Resolved == pcPath = "done"

\* C1: for every template (absent, empty, absolute, with any '.' and '..'
\* components) and every domain, the path _zone_filename returns is
\* relative (it does not begin with the root) and none of its components
\* is '..', so it names a file inside the working copy.
C1_StaysInsideWorkingCopy ==
    Resolved =>
        /\ zone_path # <<>>
        /\ Head(zone_path) # "/"
        /\ \A i \in 1..Len(split(zone_path)) : split(zone_path)[i] # DotDot

C1_Witness ==
    /\ Resolved
    /\ git_path = <<".", ".", "/", ".", ".">>
    /\ zone_path = domain

\* The reference resolver, on path components: '.' and empty components
\* are dropped, '..' removes the component before it or is dropped at the
\* root.
RECURSIVE ref_collapse(_, _)
ref_collapse(comps, kept) ==
    IF comps = <<>> THEN kept
    ELSE IF Head(comps) = <<>> \/ Head(comps) = Dot
        THEN ref_collapse(Tail(comps), kept)
    ELSE IF Head(comps) = DotDot
        THEN ref_collapse(Tail(comps),
                          IF kept = <<>> THEN kept
                          ELSE SubSeq(kept, 1, Len(kept) - 1))
    ELSE ref_collapse(Tail(comps), Append(kept, Head(comps)))

ref_components(template, dom) ==
    IF template = NoneStr \/ template = <<>> THEN <<dom>>
    ELSE IF contains_placeholder(template)
        THEN ref_collapse(split(replace(template, dom)), <<>>)
    ELSE ref_collapse(Append(split(template), dom), <<>>)

\* the components written as a relative path; no component is '.'
ref_path(template, dom) ==
    LET comps == ref_components(template, dom)
    IN  IF comps = <<>> THEN Dot ELSE joinsep(comps)

\* C2: _zone_filename equals the reference resolver: the domain alone for
\* an absent or empty template; every placeholder replaced and the domain
\* not appended for a template with a placeholder; the domain appended as
\* the last component otherwise; '.' and '..' components collapsed.
C2_EqualsReference ==
    Resolved =>
        /\ zone_path = ref_path(git_path, domain)
        /\ (git_path = NoneStr \/ git_path = <<>>) => zone_path = domain
        /\ (git_path # NoneStr /\ ~contains_placeholder(git_path)) =>
               LET comps == split(zone_path)
               IN  comps[Len(comps)] = domain

C2_Witness ==
    /\ Resolved
    /\ git_path = <<Placeholder, "/", ".", ".", "/">>
    /\ domain = <<"e", ".", "c">>
    /\ zone_path = Dot

----------------------------------------------------------------------------
(* Properties of the provider (Spec) *)

Mutating == {"create", "update", "delete"}

\* the push of the latest call did not publish the commit
PushFailed ==
    /\ callPushes = 1
    /\ \/ callPushList = <<>>
       \/ bitand(callPushList[1], PushInfo.ERROR) = PushInfo.ERROR

\* _commit's success in the latest call: a skipped no-op commit, or a push
\* that did not fail
CommitSucceeded == callCreated = 0 \/ ~PushFailed

\* C3: a create/update/delete whose zone-store mutation succeeded ran
\* _commit exactly once before returning; one whose mutation failed ran it
\* zero times.
C3_OneCommitAttemptPerSuccess ==
    op \in Mutating =>
        /\ mutOk => callCommits = 1
        /\ ~mutOk => callCommits = 0 /\ callCreated = 0 /\ callPushes = 0

C3_Witness ==
    /\ op = "create"
    /\ ~mutOk
    /\ callCommits = 0
    /\ Len(localHist) > Len(remoteBefore)

\* C4: the boolean a create/update/delete returns is (mutation succeeded)
\* AND (commit succeeded), commit success being true for a skipped no-op
\* commit and otherwise the push outcome.
C4_ResultIsConjunction ==
    (op \in Mutating /\ result \in {"True", "False"}) =>
        (result = "True" <=> (mutOk /\ CommitSucceeded))

C4_Witness ==
    /\ op = "update"
    /\ mutOk
    /\ callCreated = 1
    /\ PushFailed
    /\ result = "False"

\* C5: of two _commit runs in a row with no record mutation between them,
\* the first starting from a working copy that differs from head, the
\* first creates one commit and the second creates none, raises nothing
\* and returns success; head advances exactly once over the two.
C5_SecondCommitIsNoOp ==
    (Len(commitRun) = 2 /\ commitRun[1].created = 1) =>
        /\ commitRun[2].created = 0
        /\ commitRun[2].result = "True"
        /\ commitRun[2].before = commitRun[1].after
        /\ commitRun[2].after = commitRun[1].after
        /\ Len(commitRun[1].after) = Len(commitRun[1].before) + 1
        /\ localHist = commitRun[1].after

C5_Witness ==
    /\ Len(commitRun) = 2
    /\ commitRun[1].created = 1
    /\ commitRun[2].created = 0
    /\ op = "commit"

\* C6: a create/update/delete whose mutation succeeded and left the zone
\* file different from head advanced the local head by exactly one commit
\* (of the new zone file); one that left it identical to head created no
\* commit, pushed nothing, left head unchanged and returned success.
C6_CommitIffChanged ==
    (op \in Mutating /\ mutOk) =>
        IF wc # head(headBefore)
            THEN /\ callCreated = 1
                 /\ localHist = Append(headBefore, wc)
            ELSE /\ callCreated = 0
                 /\ callPushes = 0
                 /\ localHist = headBefore
                 /\ remoteHist = remoteBefore
                 /\ result = "True"

C6_Witness ==
    /\ op = "delete"
    /\ mutOk
    /\ wc = head(headBefore)
    /\ callCreated = 0
    /\ result = "True"
    /\ Len(localHist) > 1

\* C7: when the mutation succeeded, a commit was created and the push then
\* failed, the call returned false without an exception, the local head
\* has advanced by that commit and the remote head is unchanged.
C7_PushFailureReturnsFalse ==
    (op \in Mutating /\ mutOk /\ callCreated = 1 /\ PushFailed) =>
        /\ result = "False"
        /\ localHist = Append(headBefore, wc)
        /\ remoteHist = remoteBefore

\* C8: over any sequence of authenticate calls at most one temporary
\* directory is created and at most one clone succeeds; once a handle
\* exists no call clones again, and handle and directory are never
\* replaced.
C8_CloneOnce ==
    [][/\ tempDirsCreated' <= 1
       /\ clonesSucceeded' <= 1
       /\ repo # NoneStr => (repo' = repo /\ cloneAttempts' = cloneAttempts)
       /\ temp_dir # NoneStr => temp_dir' = temp_dir]_vars

C8_Witness ==
    /\ op = "authenticate"
    /\ repo # NoneStr
    /\ callClones = 0
    /\ cloneAttempts = 2
    /\ clonesSucceeded = 1
    /\ tempDirsCreated = 1

\* the clone succeeded (now or in an earlier call) and the zone file is
\* absent from the tree it checked out
ClonedWithoutZoneFile ==
    /\ repo # NoneStr
    /\ ~cloned_tree(localHist).exists

\* C9: when the clone succeeded but the zone file is absent from the
\* working copy, authenticate raises an authentication error and the file
\* still does not exist afterwards, on the first and on every later call.
C9_MissingZoneFileNotCreated ==
    (op = "authenticate" /\ ClonedWithoutZoneFile) =>
        /\ result = "AuthenticationError"
        /\ ~wc.exists
        /\ domain_id = NoneStr

C9_Witness ==
    /\ op = "authenticate"
    /\ ClonedWithoutZoneFile
    /\ callClones = 0
    /\ calls >= 3
    /\ result = "AuthenticationError"

\* C10: when the clone fails, authenticate raises an authentication error
\* after exactly one clone attempt and holds no repository handle nor
\* readiness marker; a clone is attempted again only by a later
\* authenticate call, once per call.
C10_CloneFailureNoRetry ==
    [][/\ (op' = "authenticate" /\ cloneFailed') =>
              /\ result' = "AuthenticationError"
              /\ callClones' = 1
              /\ repo' = NoneStr
              /\ domain_id' = NoneStr
       /\ cloneAttempts' # cloneAttempts =>
              /\ op' = "authenticate"
              /\ calls' = calls + 1
              /\ cloneAttempts' = cloneAttempts + 1]_vars

C10_Witness ==
    /\ op = "authenticate"
    /\ cloneFailed
    /\ cloneAttempts = 2
    /\ repo = NoneStr

----------------------------------------------------------------------------
(* Properties of the push branch (SpecBranch) *)

\* C11: a real commit made by create/update/delete whose push succeeded is
\* on the configured push branch of the remote when that option is set,
\* and on the cloned branch when it is not.
C11_PushBranchReceivesCommit ==
    (op \in Mutating /\ callCreated = 1 /\ ~PushFailed) =>
        IF git_push_branch # NoneStr
            THEN pushBranchHist = localHist
            ELSE remoteHist = localHist

----------------------------------------------------------------------------
(* Properties of _push (SpecPush) *)

\* the first entry of the list has the error-class bit (bit 10) set
HasErrorBit(push_list) ==
    push_list # <<>> /\ (push_list[1] \div PushInfo.ERROR) % 2 = 1

\* C15: _push always returns a boolean and never raises; the boolean is
\* False exactly when the push result's bitmask has the error-class bit
\* set and True for every other flag combination.
C15_PushOutcomeByErrorBit ==
    pcPush = "done" =>
        /\ pushOut \in {"True", "False"}
        /\ pushOut = "False" <=> HasErrorBit(pushIn)

----------------------------------------------------------------------------
(* Further properties of the provider (Spec) *)

\* C17: an authenticate call that fails (clone failure, or zone file
\* absent after a successful clone) leaves domain_id unset; domain_id is
\* only ever set by an authenticate call that returned normally, with a
\* repository handle held and the zone file present.
C17_ReadyOnlyAfterFullSuccess ==
    [][/\ (op' = "authenticate" /\ calls' = calls + 1
               /\ result' = "AuthenticationError") =>
              domain_id' = NoneStr
       /\ domain_id' # domain_id =>
              /\ op' = "authenticate"
              /\ result' = "None"
              /\ ~cloneFailed'
              /\ repo' # NoneStr
              /\ wc'.exists
              /\ domain_id' = domain]_vars

C17_Witness ==
    /\ op = "authenticate"
    /\ result = "None"
    /\ domain_id = domain
    /\ cloneAttempts = 2
    /\ clonesSucceeded = 1

\* C18: whenever a create/update/delete returns true, every local commit
\* has been published: the remote branch head is the local head.
C18_TrueMeansPublished ==
    (op \in Mutating /\ result = "True") => remoteHist = localHist

----------------------------------------------------------------------------
(* The REST provider (digitalocean.py) and its server *)

\* str.rstrip(ch)
RECURSIVE rstrip(_, _)
rstrip(s, ch) ==
    IF s # <<>> /\ s[Len(s)] = ch THEN rstrip(SubSeq(s, 1, Len(s) - 1), ch)
    ELSE s

\* str.lower() over the characters in use
lower(s) == [i \in 1..Len(s) |-> IF s[i] = "X" THEN "x" ELSE s[i]]

\* str.endswith(suffix)
endswith(s, suffix) ==
    /\ Len(s) >= Len(suffix)
    /\ SubSeq(s, Len(s) - Len(suffix) + 1, Len(s)) = suffix

\* BaseProvider._full_name
full_name(record_name, dom) ==
    LET r == rstrip(record_name, ".")
    IN  IF ~endswith(r, dom) THEN r \o <<".">> \o dom ELSE r

\* BaseProvider._relative_name
relative_name(record_name, dom) ==
    LET r == rstrip(record_name, ".")
    IN  IF endswith(r, dom)
            THEN rstrip(SubSeq(r, 1, Len(r) - Len(dom)), ".")
        ELSE r

\* the truth value Python gives a string argument: None and "" are false
truthy(v) == v # NoneStr /\ v # <<>>

\* Server: GET of page k of the record collection, pp records to a page;
\* links is <<k + 1>> when a next page exists, <<>> otherwise
get_page(server, pp, k) ==
    LET n == Len(server)
        last == IF k * pp < n THEN k * pp ELSE n
    IN  [domain_records |-> SubSeq(server, (k - 1) * pp + 1, last),
         links |-> IF k * pp < n THEN <<k + 1>> ELSE <<>>]

\* Server: POST of a record; the server assigns the identifier
post_record(server, id, record) ==
    Append(server, [id |-> id, type |-> record.type, name |-> record.name,
                    data |-> record.data])

\* Server: is there a record with this identifier
has_id(server, id) == \E i \in 1..Len(server) : server[i].id = id

\* Server: DELETE of the records with the identifiers of the sequence ids
delete_ids(server, ids) ==
    LET Kept(r) == \A i \in 1..Len(ids) : ids[i] # r.id
    IN  SelectSeq(server, Kept)

\* Server: PUT of the fields of data (NoneStr: field not sent)
put_record(server, id, data) ==
    [i \in 1..Len(server) |->
        IF server[i].id # id THEN server[i]
        ELSE [id |-> id,
              type |-> IF data.type # NoneStr THEN data.type
                       ELSE server[i].type,
              name |-> IF data.name # NoneStr THEN data.name
                       ELSE server[i].name,
              data |-> IF data.data # NoneStr THEN data.data
                       ELSE server[i].data]]

\* list_records, the loop body: the record made of one server record
processed_record(record, did) ==
    [type |-> record.type,
     name |-> record.name \o <<".">> \o did,
     content |-> record.data,
     id |-> record.id]

\* list_records that reads no next-page link
next_link_none(payload) == <<>>
\* list_records: the next-page link of a response, <<>> for None
next_link(payload) == payload.links

\* list_records, the loop: the records of the page "next" and of the pages
\* after it, and the pages requested
RECURSIVE get_all(_, _, _, _)
get_all(server, pp, did, next) ==
    LET payload == get_page(server, pp, next)
        here == [i \in 1..Len(payload.domain_records) |->
                    processed_record(payload.domain_records[i], did)]
        nxt == next_link(payload)
    IN  IF nxt = <<>> THEN [records |-> here, reqs |-> <<next>>]
        ELSE LET rest == get_all(server, pp, did, nxt[1])
             IN  [records |-> here \o rest.records,
                  reqs |-> <<next>> \o rest.reqs]

\* list_records: the content filter comparing without lower()
content_matches_exact(record, content) == record.content = content
\* list_records: the content filter
content_matches(record, content) == lower(record.content) = lower(content)

\* list_records
list_records(server, pp, did, dom, type, name, content) ==
    LET all == get_all(server, pp, did, 1)
        ByType(r) == r.type = type
        ByName(r) == r.name = full_name(name, dom)
        ByContent(r) == content_matches(r, content)
        r1 == IF truthy(type) THEN SelectSeq(all.records, ByType)
              ELSE all.records
        r2 == IF truthy(name) THEN SelectSeq(r1, ByName) ELSE r1
        r3 == IF truthy(content) THEN SelectSeq(r2, ByContent) ELSE r2
    IN  [records |-> r3, reqs |-> all.reqs]

\* create_record: the record to post
new_record(type, name, content, dom) ==
    [type |-> type,
     name |-> relative_name(name, dom),
     data |-> IF type = <<"CNAME">> THEN rstrip(content, ".") \o <<".">>
              ELSE content]

\* update_record: the fields to put
update_data(type, name, content, dom) ==
    [type |-> IF truthy(type) THEN type ELSE NoneStr,
     name |-> IF truthy(name) THEN relative_name(name, dom) ELSE NoneStr,
     data |-> IF truthy(content) THEN content ELSE NoneStr]

\* delete_record that deletes the first listed record only
delete_record_id_first(identifier, listed) ==
    IF identifier = NoIdentifier
        THEN IF listed = <<>> THEN <<>> ELSE <<listed[1].id>>
    ELSE <<identifier>>
\* delete_record: the identifiers to delete
delete_record_id(identifier, listed) ==
    IF identifier = NoIdentifier
        THEN [i \in 1..Len(listed) |-> listed[i].id]
    ELSE <<identifier>>

\* arguments of create_record
RestTypes == {<<"A">>, <<"CNAME">>}
RestNames == {<<"w", ".", "d">>, <<"v">>}
RestContents == {<<"x">>, <<"X">>}
\* filters of the calls of SpecRest
SomeTypes == {NoneStr, <<"A">>}
SomeNames == {NoneStr, <<"w">>}
SomeContents == {NoneStr, <<"X">>}
Identifiers == 0..MaxRest
\* filters of the calls of SpecList
TypeFilters == {NoneStr, <<"A">>, <<"CNAME">>}
NameFilters == {NoneStr, <<"w">>, <<"w", ".", "d">>, <<"v">>}
ContentFilters == {NoneStr, <<"x">>, <<"X">>, <<"x", ".">>}

InitRest ==
    /\ git_path = NoneStr
    /\ domain = <<"d">>
    /\ pcPath = "off"
    /\ zone_path = NoneStr
    /\ remoteHist = <<ZoneFile({})>>
    /\ InitProvider
    /\ IdleBranch
    /\ IdlePush
    /\ IdlePeer
    /\ doRecords = <<>>
    /\ doNextId = 1
    /\ perPage = 1
    /\ restOp = "None"
    /\ restArgs = NoArgs
    /\ restResult = "None"
    /\ restOut = <<>>
    /\ restReqs = <<>>
    /\ restBefore = <<>>
    /\ restSent = <<>>

RestFrame ==
    UNCHANGED <<git_path, domain, pcPath, zone_path, temp_dir, filename,
                repo, repoVars, callVars, runVars, branchVars, pushVars,
                peerVars, perPage>>

\* a call made before authenticate: the URL names the domain "None", the
\* server answers with an error status and raise_for_status raises
rest_unauthenticated(name, args) ==
    /\ domain_id = NoneStr
    /\ restOp' = name
    /\ restArgs' = args
    /\ restResult' = "HTTPError"
    /\ restOut' = <<>>
    /\ restReqs' = <<>>
    /\ restBefore' = doRecords
    /\ restSent' = <<>>
    /\ UNCHANGED <<domain_id, doRecords, doNextId>>
    /\ RestFrame

\* Provider.authenticate
RestAuthenticate ==
    /\ domain_id' = domain
    /\ restOp' = "authenticate"
    /\ restArgs' = NoArgs
    /\ restResult' = "None"
    /\ restOut' = <<>>
    /\ restReqs' = <<>>
    /\ restBefore' = doRecords
    /\ restSent' = <<>>
    /\ UNCHANGED <<doRecords, doNextId>>
    /\ RestFrame

\* Provider.list_records
rest_list(type, name, content) ==
    LET args == [identifier |-> NoIdentifier, type |-> type, name |-> name,
                 content |-> content]
    IN  \/ rest_unauthenticated("list", args)
        \/ /\ domain_id # NoneStr
           /\ LET listed == list_records(doRecords, perPage, domain_id,
                                         domain, type, name, content)
              IN  /\ restOut' = listed.records
                  /\ restReqs' = listed.reqs
           /\ restOp' = "list"
           /\ restArgs' = args
           /\ restResult' = "True"
           /\ restBefore' = doRecords
           /\ restSent' = <<>>
           /\ UNCHANGED <<domain_id, doRecords, doNextId>>
           /\ RestFrame

\* Provider.create_record
rest_create(type, name, content) ==
    LET args == [identifier |-> NoIdentifier, type |-> type, name |-> name,
                 content |-> content]
    IN  \/ rest_unauthenticated("create", args)
        \/ /\ domain_id # NoneStr
           /\ LET listed == list_records(doRecords, perPage, domain_id,
                                         domain, type, name, content)
                  record == new_record(type, name, content, domain)
                  posts == Len(listed.records) = 0
              IN  /\ posts => doNextId <= MaxRest
                  /\ doRecords' = IF posts
                                      THEN post_record(doRecords, doNextId,
                                                       record)
                                  ELSE doRecords
                  /\ doNextId' = IF posts THEN doNextId + 1 ELSE doNextId
                  /\ restReqs' = listed.reqs
                  /\ restSent' = IF posts THEN <<record>> ELSE <<>>
           /\ restOp' = "create"
           /\ restArgs' = args
           /\ restResult' = "True"
           /\ restOut' = <<>>
           /\ restBefore' = doRecords
           /\ UNCHANGED domain_id
           /\ RestFrame

\* Provider.update_record
rest_update(identifier, type, name, content) ==
    LET args == [identifier |-> identifier, type |-> type, name |-> name,
                 content |-> content]
    IN  \/ rest_unauthenticated("update", args)
        \/ /\ domain_id # NoneStr
           /\ LET data == update_data(type, name, content, domain)
                  found == has_id(doRecords, identifier)
              IN  /\ doRecords' = IF found
                                      THEN put_record(doRecords, identifier,
                                                      data)
                                  ELSE doRecords
                  /\ restResult' = IF found THEN "True" ELSE "HTTPError"
                  /\ restSent' = <<data>>
           /\ restOp' = "update"
           /\ restArgs' = args
           /\ restOut' = <<>>
           /\ restReqs' = <<>>
           /\ restBefore' = doRecords
           /\ UNCHANGED <<domain_id, doNextId>>
           /\ RestFrame

\* Provider.delete_record
rest_delete(identifier, type, name, content) ==
    LET args == [identifier |-> identifier, type |-> type, name |-> name,
                 content |-> content]
    IN  \/ rest_unauthenticated("delete", args)
        \/ /\ domain_id # NoneStr
           /\ LET listed == IF identifier = NoIdentifier
                                THEN list_records(doRecords, perPage,
                                                  domain_id, domain, type,
                                                  name, content)
                            ELSE [records |-> <<>>, reqs |-> <<>>]
                  ids == delete_record_id(identifier, listed.records)
                  found == \A i \in 1..Len(ids) : has_id(doRecords, ids[i])
              IN  /\ doRecords' = IF found THEN delete_ids(doRecords, ids)
                                  ELSE doRecords
                  /\ restResult' = IF found THEN "True" ELSE "HTTPError"
                  /\ restReqs' = listed.reqs
                  /\ restSent' = ids
           /\ restOp' = "delete"
           /\ restArgs' = args
           /\ restOut' = <<>>
           /\ restBefore' = doRecords
           /\ UNCHANGED <<domain_id, doNextId>>
           /\ RestFrame

RestList ==
    \E t \in SomeTypes, n \in SomeNames, c \in SomeContents :
        rest_list(t, n, c)

RestCreate ==
    \E t \in RestTypes, n \in RestNames, c \in RestContents :
        rest_create(t, n, c)

RestUpdate ==
    \E i \in Identifiers \ {NoIdentifier}, c \in SomeContents :
        rest_update(i, NoneStr, NoneStr, c)

RestDelete ==
    \E i \in Identifiers, t \in SomeTypes, n \in SomeNames,
       c \in SomeContents :
        rest_delete(i, t, n, c)

NextRest ==
    RestAuthenticate \/ RestList \/ RestCreate \/ RestUpdate \/ RestDelete

SpecRest == InitRest /\ [][NextRest]_vars

\* SpecList: list_records applied to every record collection of a bounded
\* set, under every page size and filter

\* the records a collection is made of
ListedRecords ==
    {[type |-> <<"A">>, name |-> <<"w">>, data |-> <<"x">>],
     [type |-> <<"A">>, name |-> <<"w">>, data |-> <<"X">>],
     [type |-> <<"CNAME">>, name |-> <<"w">>, data |-> <<"x", ".">>],
     [type |-> <<"A">>, name |-> <<"v">>, data |-> <<"x">>]}

\* the server gives the n-th record it was sent the identifier n
with_ids(records) ==
    [i \in 1..Len(records) |->
        [id |-> i, type |-> records[i].type, name |-> records[i].name,
         data |-> records[i].data]]

ListedCollections ==
    UNION {{with_ids(c) : c \in [1..n -> ListedRecords]} : n \in 0..MaxListed}

InitList ==
    /\ git_path = NoneStr
    /\ domain = <<"d">>
    /\ pcPath = "off"
    /\ zone_path = NoneStr
    /\ remoteHist = <<ZoneFile({})>>
    /\ temp_dir = NoneStr
    /\ filename = NoneStr
    /\ repo = NoneStr
    /\ domain_id \in {NoneStr, domain}
    /\ localHist = <<>>
    /\ wc = NoFile
    /\ calls = 0
    /\ op = "None"
    /\ result = "None"
    /\ mutOk = FALSE
    /\ callCommits = 0
    /\ callCreated = 0
    /\ callPushes = 0
    /\ callPushList = <<>>
    /\ callClones = 0
    /\ cloneFailed = FALSE
    /\ headBefore = <<>>
    /\ remoteBefore = remoteHist
    /\ tempDirsCreated = 0
    /\ cloneAttempts = 0
    /\ clonesSucceeded = 0
    /\ commitRun = <<>>
    /\ IdleBranch
    /\ IdlePush
    /\ IdlePeer
    /\ doRecords \in ListedCollections
    /\ doNextId = Len(doRecords) + 1
    /\ perPage \in 1..MaxPerPage
    /\ restOp = "None"
    /\ restArgs = NoArgs
    /\ restResult = "None"
    /\ restOut = <<>>
    /\ restReqs = <<>>
    /\ restBefore = <<>>
    /\ restSent = <<>>

ListCall ==
    /\ restOp = "None"
    /\ \E t \in TypeFilters, n \in NameFilters, c \in ContentFilters :
           rest_list(t, n, c)

NextList == ListCall

SpecList == InitList /\ [][NextList]_vars

----------------------------------------------------------------------------
(* Properties of two instances on one remote branch (SpecTwo) *)

\* a published commit is never lost: the remote head only moves to a
\* descendant of itself
RemoteOnlyAdvances == [][is_prefix(remoteHist, remoteHist')]_vars

\* C19: with two instances on the same remote branch, the remote head only
\* advances to a descendant of its previous head, and a mutating call by
\* an instance whose local head does not descend from the remote head
\* returns false.
C19_NoLostCommit ==
    [][/\ is_prefix(remoteHist, remoteHist')
       /\ (calls' = calls + 1 /\ op' \in Mutating
               /\ ~is_prefix(remoteHist, localHist)) =>
              result' = "False"
       /\ (peerCalls' = peerCalls + 1 /\ ~is_prefix(remoteHist, peerHist)) =>
              peerResult' = "False"]_vars

----------------------------------------------------------------------------
(* Properties of the REST provider (SpecRest, SpecList) *)

\* two strings are equal when letter case is ignored
SameIgnoringCase(a, b) ==
    /\ Len(a) = Len(b)
    /\ \A i \in 1..Len(a) :
           (IF a[i] = "x" THEN "X" ELSE a[i]) =
               (IF b[i] = "x" THEN "X" ELSE b[i])

\* the server record r satisfies every filter of args that is not None; a
\* name filter names the record by its label or by its label followed by
\* the domain
Matches(r, args) ==
    /\ args.type # NoneStr => r.type = args.type
    /\ args.name # NoneStr =>
           \/ args.name = r.name
           \/ args.name = r.name \o <<".">> \o domain
    /\ args.content # NoneStr => SameIgnoringCase(r.data, args.content)

\* the sequence listed holds the records of the sequence expected, in the
\* same order, as list_records presents them
Presents(listed, expected) ==
    /\ Len(listed) = Len(expected)
    /\ \A i \in 1..Len(expected) :
           /\ listed[i].id = expected[i].id
           /\ listed[i].type = expected[i].type
           /\ listed[i].name = expected[i].name \o <<".">> \o domain
           /\ listed[i].content = expected[i].data

MatchingBefore ==
    LET M(r) == Matches(r, restArgs) IN SelectSeq(restBefore, M)

NotMatchingBefore ==
    LET N(r) == ~Matches(r, restArgs) IN SelectSeq(restBefore, N)

\* C12: after create_record(type, name, content) has returned success,
\* list_records with the same type, name and content returns exactly one
\* record, for every record type and however often the create was called.
C12_CreateThenListOnce ==
    (restOp = "create" /\ restResult = "True") =>
        Len(list_records(doRecords, perPage, domain_id, domain,
                         restArgs.type, restArgs.name,
                         restArgs.content).records) = 1

\* C13: delete_record without identifier deletes exactly the records that
\* match the filters, leaves the others as they were, sends no deletion
\* when nothing matches and returns success; with an identifier it deletes
\* that record only, whatever the filters.
C13_DeleteRemovesMatching ==
    /\ (restOp = "delete" /\ domain_id # NoneStr
            /\ restArgs.identifier = NoIdentifier) =>
           /\ restResult = "True"
           /\ doRecords = NotMatchingBefore
           /\ restSent = [i \in 1..Len(MatchingBefore) |->
                             MatchingBefore[i].id]
    /\ (restOp = "delete" /\ restResult = "True"
            /\ restArgs.identifier # NoIdentifier) =>
           /\ restSent = <<restArgs.identifier>>
           /\ LET Other(r) == r.id # restArgs.identifier
              IN  doRecords = SelectSeq(restBefore, Other)

C13_Witness ==
    /\ restOp = "delete" /\ restResult = "True"
    /\ restArgs.identifier = NoIdentifier
    /\ restArgs.type = <<"A">>
    /\ Len(restBefore) = 2
    /\ Len(restSent) = 1
    /\ Len(doRecords) = 1

RECURSIVE PagesConcat(_, _)
PagesConcat(k, last) ==
    IF k > last THEN <<>>
    ELSE get_page(doRecords, perPage, k).domain_records
             \o PagesConcat(k + 1, last)

\* C16: list_records requests page 1 and then the page each response
\* links to, until a response carries no link: every page once, in chain
\* order; without filters the result is the records of these pages, one
\* page after the other.
C16_FollowsEveryPage ==
    (restOp = "list" /\ restResult = "True") =>
        LET n == Len(restReqs)
        IN  /\ n >= 1
            /\ \A i \in 1..n : restReqs[i] = i
            /\ \A i \in 1..(n - 1) :
                   get_page(doRecords, perPage, i).links = <<i + 1>>
            /\ get_page(doRecords, perPage, n).links = <<>>
            /\ restArgs = NoArgs =>
                   Presents(restOut, PagesConcat(1, n))

C16_Witness ==
    /\ restOp = "list" /\ restResult = "True"
    /\ restArgs = NoArgs
    /\ Len(restReqs) >= 2
    /\ Len(restOut) = 3

====
